---- MODULE Spec2Model ----
(***************************************************************************)
(* Model of Usermods/sporkus/probe_accuracy_test_suite.py: a sequential    *)
(* script that drives a printer through Moonraker (HTTP) and measures the  *)
(* probe.  One action is one step of the script: at most one POST          *)
(* (send_gcode) per step, so an interruption or a transport failure can    *)
(* hit before or after every command.  Numbers are integers (the unit is   *)
(* left open: millimetres for coordinates, microns for z).                 *)
(***************************************************************************)
EXTENDS Integers, Sequences, FiniteSets, TLC

VARIABLES
    corner, repeatability, drift, force_dock,  \* main's arguments (0 is None)
    discard_first_sample, margin,              \* collect_data's, random_loc's parameter
    homed_axes, leveling, applied,             \* printer objects queried
    axis_minimum, axis_maximum,                \* toolhead: <<x, y>>
    probe_offset, mesh_min, mesh_max,          \* configfile: [probe], [bed_mesh]
    pc, stack, status,                         \* position, return labels, outcome
    i, loc, call,                              \* loop index, move target, test_probe's arguments
    corners,                                   \* the list test_corners goes through
    start_time, gcode_resp, data,              \* collect_data's locals and result
    acquired,                                  \* the lists collect_data returned so far
    dfs, tables, df,                           \* a procedure's frames; test_routine's; the merged table
    sent, store,                               \* POSTs issued; Moonraker's gcode store
    interrupted_at,                            \* Len(sent) at the interruption, or -1
    raised_at                                  \* Len(sent) when the program died, or -1

args    == <<corner, repeatability, drift, force_dock, discard_first_sample,
             margin>>
geometry == <<axis_minimum, axis_maximum, probe_offset, mesh_min, mesh_max>>
printer == <<homed_axes, leveling, applied, geometry>>
ctrl    == <<pc, stack, status, raised_at>>
locals  == <<i, loc, call, corners>>
burst   == <<start_time, gcode_resp, data, acquired>>
frames  == <<dfs, tables, df>>
vars    == <<args, printer, ctrl, locals, burst, frames, sent, store,
             interrupted_at>>

----------------------------------------------------------------------------
(* Bounds of the model. *)

\* number of repeatability tests requested on the command line
MaxTrials == 2
\* samples requested for the corner and for the drift test on the command line
CornerN == 2
DriftN == 3
\* entries of a response drawn freely (specification SpecCollect)
MaxResp == 3

(* Program constants. *)
HeaderRepeatSamples  == 5
DefaultCorner        == 30
DefaultRepeatability == 20
DefaultDrift         == 100
RepeatProbeCount     == 10
StoreCount           == 1000
Margin               == 50

----------------------------------------------------------------------------
(* Sequences. *)

Abs(n) == IF n < 0 THEN -n ELSE n

Last(s) == s[Len(s)]

\* the last min(n, Len(s)) elements of s
LastN(s, n) == IF Len(s) <= n THEN s ELSE SubSeq(s, Len(s) - n + 1, Len(s))

RECURSIVE Flatten(_)
Flatten(ss) == IF ss = <<>> THEN <<>> ELSE Head(ss) \o Flatten(Tail(ss))

Min(S) == CHOOSE m \in S : \A n \in S : m <= n
Max(S) == CHOOSE m \in S : \A n \in S : m >= n

----------------------------------------------------------------------------
(* The printer as Moonraker reports it. *)

\* a 300 mm printer, the probe 20 mm behind the nozzle
Printer300 ==
    /\ axis_minimum = <<0, 0>>
    /\ axis_maximum = <<300, 300>>
    /\ probe_offset = <<0, 20>>
    /\ mesh_min = <<40, 40>>
    /\ mesh_max = <<260, 260>>

\* np.random.random() draws from [0, 1): the fractions num/den of the model
RandomDraws == {<<0, 2>>, <<1, 2>>}

Leveling == {"z_tilt", "quad_gantry_level", "none"}

(* A command as POSTed: its text up to the numbers, and the numbers. *)
Gcode(text, a, b) == [gcode |-> text, a |-> a, b |-> b]

ATTACH_PROBE_LOCK == Gcode("ATTACH_PROBE_LOCK", 0, 0)
DOCK_PROBE_UNLOCK == Gcode("DOCK_PROBE_UNLOCK", 0, 0)
G28               == Gcode("G28", 0, 0)
G90               == Gcode("G90", 0, 0)
G1_Z              == Gcode("G1 Z", 0, 0)
G0(xy)            == Gcode("G0", xy[1], xy[2])
PROBE_ACCURACY(n) == Gcode("PROBE_ACCURACY SAMPLES=", n, 0)

(* A test label: the f-string's fixed text and the numbers put into it. *)
Label(text, num, n) == [text |-> text, num |-> num, n |-> n]
NoLabel == Label("", 0, 0)
NoCall  == [probe_count |-> 0, loc |-> <<>>, testname |-> NoLabel]

----------------------------------------------------------------------------
(* Location strategy. *)

\* np.mean([min, max]) on each axis
get_bed_center(amin, amax) ==
    <<(amin[1] + amax[1]) \div 2, (amin[2] + amax[2]) \div 2>>

\* random() * (max - min - margin) + margin on each axis; rx, ry are the draws
random_loc(rx, ry, amin, amax, mg) ==
    << (rx[1] * (amax[1] - amin[1] - mg)) \div rx[2] + mg,
       (ry[1] * (amax[2] - amin[2] - mg)) \div ry[2] + mg >>

\* re.findall(r"[\d.]+", text) on a text holding the numbers ns: a minus sign
\* is no part of a match, so every number comes out without its sign
findall(ns) == [k \in 1..Len(ns) |-> Abs(ns[k])]

get_bed_corners(mmin, mmax, offset) ==
    LET lo   == findall(mmin)
        hi   == findall(mmax)
        xmin == lo[1] - offset[1]
        ymin == lo[2] - offset[2]
        xmax == hi[1] - offset[1]
        ymax == hi[2] - offset[2]
    IN  << <<xmin, ymax>>, <<xmax, ymax>>, <<xmin, ymin>>, <<xmax, ymin>> >>

BedCenter  == get_bed_center(axis_minimum, axis_maximum)
BedCorners == get_bed_corners(mesh_min, mesh_max, probe_offset)
RandomLocs ==
    {random_loc(rx, ry, axis_minimum, axis_maximum, margin) :
        rx \in RandomDraws, ry \in RandomDraws}

----------------------------------------------------------------------------
(* Moonraker's gcode store and Klipper's answers.  An entry is a time and  *)
(* a message; a message is its leading text and the numbers written in it. *)

Entry(t, prefix, x, y, z) ==
    [time |-> t, prefix |-> prefix, x |-> x, y |-> y, z |-> z]

ProbeAt == "// probe at"
Fault   == "!!"
Results == "// probe accuracy results"

LastTime(st) == IF st = <<>> THEN 0 ELSE Last(st).time

\* where the toolhead is after the commands cs: the last G0's target
Toolhead(cs) ==
    LET moves == {k \in 1..Len(cs) : cs[k].gcode = "G0"}
    IN  IF moves = {} THEN <<0, 0>>
        ELSE <<cs[Max(moves)].a, cs[Max(moves)].b>>

\* the z reported by the m-th probe of a burst: falls below zero
ZOf(m) == 3 - m

\* the lines of a burst of n probes at xy, the first at time t + 1
ProbeLines(t, n, xy) ==
    [m \in 1..n |-> Entry(t + m, ProbeAt, xy[1], xy[2], ZOf(m))]

\* Klipper's answer to PROBE_ACCURACY SAMPLES=n when m probes work: n lines
\* and the results, or m lines and the error that ended the command
Answer(t, n, xy, m) ==
    Append(ProbeLines(t, m, xy),
           Entry(t + m + 1, IF m = n THEN Results ELSE Fault, 0, 0, 0))

\* the probe works throughout or fails at the first probe
Worked(n) == {0, n}

\* ... or at the second or at the third
WorkedPartly(n) == {0, n} \cup {m \in 1..2 : m <= n}

\* the store after Moonraker ran command g and Klipper answered with `answer`
Stored(st, g, answer) ==
    Append(st, Entry(LastTime(st) + 1, g.gcode, g.a, g.b, 0)) \o answer

\* GET /server/gcode_store?count=: the most recent entries, oldest first
get_gcode_response(count) == LastN(store, count)

----------------------------------------------------------------------------
(* collect_data's parsing (lines 304-327). *)

\* the comparison letting the baseline entry through
NewerThan_or_equal(raw, t) == SelectSeq(raw, LAMBDA e : e.time >= t)

\* [x for x in raw if x["time"] > start_time]
NewerThan(raw, t) == SelectSeq(raw, LAMBDA e : e.time > t)

StartsWith(resp, prefix) == SelectSeq(resp, LAMBDA e : e.prefix = prefix)

\* one dict per '// probe at' line, numbered in the order of the lines
Samples(msgs, test) ==
    [k \in 1..Len(msgs) |->
        LET coor == findall(<<msgs[k].x, msgs[k].y, msgs[k].z>>)
        IN  [test |-> test, index |-> k - 1,
             x |-> coor[1], y |-> coor[2], z |-> coor[3]]]

\* the pop followed by a renumbering of the rest from zero
Pop0_reindexed(d) == [k \in 1..(Len(d) - 1) |-> [d[k + 1] EXCEPT !.index = k - 1]]

\* data.pop(0)
Pop0(d) == Tail(d)

Discarded(d, discard) == IF discard THEN Pop0(d) ELSE d

----------------------------------------------------------------------------
(* pandas: a frame is the sequence of its rows; `row` is the row's label   *)
(* in the frame's index, which pd.DataFrame(list) numbers from 0.          *)

DataFrame(d, measurement) ==
    [k \in 1..Len(d) |->
        [row |-> k - 1, measurement |-> measurement, test |-> d[k].test,
         index |-> d[k].index, x |-> d[k].x, y |-> d[k].y, z |-> d[k].z]]

\* pd.concat(frames, axis=0): the rows in order, each keeping its label
concat(fs) == Flatten(fs)

\* ignore_index=True: the rows relabelled 0, 1, ...
ignore_index(t) == [k \in 1..Len(t) |-> [t[k] EXCEPT !.row = k - 1]]

RECURSIVE SortFrom(_, _, _)
SortFrom(t, r, top) ==
    IF r > top THEN <<>>
    ELSE SelectSeq(t, LAMBDA w : w.row = r) \o SortFrom(t, r + 1, top)

\* .sort_index(): a frame whose labels already ascend is left as it is; else
\* the rows by ascending label, here with rows of one label in the order they
\* have in t
sort_index(t) ==
    IF \A k \in 1..(Len(t) - 1) : t[k].row <= t[k + 1].row THEN t
    ELSE SortFrom(t, 0, Max({t[k].row : k \in 1..Len(t)}))

\* sort_index sorts with numpy's quicksort, which is not stable: the order of
\* rows that share a label is the build's.  The orders modelled are those of
\* the frames as submitted and of the frames in reverse.
TieOrders(n) == {[k \in 1..n |-> k], [k \in 1..n |-> n + 1 - k]}

Permuted(fs, p) == [k \in 1..Len(fs) |-> fs[p[k]]]

----------------------------------------------------------------------------
(* What the step at pc POSTs, and whether it queries Moonraker before.     *)

homing_gcode == IF homed_axes # "xyz" THEN <<G28>> ELSE <<>>

\* the command of a level_bed that only checks the 'applied' flag
level_bed_gcode_unforced(force) ==
    IF leveling = "none" \/ applied THEN <<>>
    ELSE << Gcode(IF leveling = "z_tilt" THEN "z_tilt_adjust"
                  ELSE "quad_gantry_level", 0, 0) >>

level_bed_gcode(force) ==
    IF leveling = "none" THEN <<>>
    ELSE IF (~applied) \/ force
         THEN << Gcode(IF leveling = "z_tilt" THEN "z_tilt_adjust"
                       ELSE "quad_gantry_level", 0, 0) >>
         ELSE <<>>

\* a procedure that never releases the lock it took
unlock_gcode_missing == <<>>

\* a procedure taking the lock whatever force_dock says
lock_gcode_always == <<ATTACH_PROBE_LOCK>>

lock_gcode   == IF ~force_dock THEN <<ATTACH_PROBE_LOCK>> ELSE <<>>
unlock_gcode == IF ~force_dock THEN <<DOCK_PROBE_UNLOCK>> ELSE <<>>

corner_m117 == IF i < 4 THEN <<Gcode("M117 corner test", i + 1, 4)>> ELSE <<>>
repeat_m117 == <<Gcode("M117 repeatability test", i + 1, repeatability)>>

Request ==
    CASE pc = "homing"         -> homing_gcode
      [] pc = "level_bed"      -> level_bed_gcode(FALSE)
      [] pc = "tc_level_bed"   -> level_bed_gcode(TRUE)
      [] pc = "move_to_safe_z" -> <<G1_Z>>
      [] pc = "tc_lock"        -> lock_gcode
      [] pc = "rp_lock"        -> lock_gcode
      [] pc = "tc_loop"        -> corner_m117
      [] pc = "rp_m117"        -> repeat_m117
      [] pc = "tc_unlock"      -> unlock_gcode
      [] pc = "rp_unlock"      -> unlock_gcode
      [] pc = "mv_g90"         -> <<G90>>
      [] pc = "mv_g0"          -> <<G0(loc)>>
      [] pc = "cd_send"        -> <<PROBE_ACCURACY(call.probe_count)>>
      [] pc = "unlock"         -> <<DOCK_PROBE_UNLOCK>>
      [] OTHER                 -> <<>>

Queries ==
    \/ pc \in {"homing", "level_bed", "tc_level_bed", "move_to_safe_z",
               "tc_corners", "rp_loop", "rp_center", "cd_baseline", "cd_read"}
    \/ pc = "tp_move" /\ call.loc = <<>>

\* send_gcode for the commands gs (none or one), Klipper answering `answer`
Post(gs, answer) ==
    IF gs = <<>> THEN UNCHANGED <<sent, store>>
    ELSE /\ sent' = sent \o gs
         /\ store' = Stored(store, gs[1], answer)

Running(at) == status = "running" /\ pc = at

\* an exception nothing catches ends the program where it is raised
Raise(exception) ==
    /\ status' = exception
    /\ pc' = "halt"
    /\ stack' = <<>>
    /\ raised_at' = Len(sent)

Goto(next) == pc' = next /\ UNCHANGED <<stack, status, raised_at>>

\* a call: continue at `callee`, come back at `back`
Call(callee, back) ==
    /\ pc' = callee
    /\ stack' = <<back>> \o stack
    /\ UNCHANGED <<status, raised_at>>

Return ==
    /\ pc' = Head(stack)
    /\ stack' = Tail(stack)
    /\ UNCHANGED <<status, raised_at>>

----------------------------------------------------------------------------
(* main (lines 32-47) up to test_routine. *)

homing ==
    /\ Running("homing")
    /\ Post(homing_gcode, <<>>)
    /\ homed_axes' = "xyz"
    /\ Goto("level_bed")
    /\ UNCHANGED <<args, leveling, applied, geometry, locals, burst, frames,
                   interrupted_at>>

\* level_bed() in main, level_bed(force=True) in test_corners.  With neither
\* section configured `leveled` is never bound, and line 236 reads it.
level_bed ==
    /\ status = "running"
    /\ pc \in {"level_bed", "tc_level_bed"}
    /\ LET force == (pc = "tc_level_bed")
       IN  IF leveling = "none"
           THEN /\ Raise("UnboundLocalError")
                /\ UNCHANGED <<sent, store, applied>>
           ELSE /\ Post(level_bed_gcode(force), <<>>)
                /\ applied' = TRUE
                /\ Goto(IF force THEN "tc_lock" ELSE "move_to_safe_z")
    /\ UNCHANGED <<args, homed_axes, leveling, geometry, locals, burst,
                   frames, interrupted_at>>

move_to_safe_z ==
    /\ Running("move_to_safe_z")
    /\ Post(<<G1_Z>>, <<>>)
    /\ Goto("main_args")
    /\ UNCHANGED <<args, printer, locals, burst, frames,
                   interrupted_at>>

\* lines 39-44: no test chosen runs all three
main_args ==
    /\ Running("main_args")
    /\ IF corner = 0 /\ repeatability = 0 /\ drift = 0
       THEN /\ corner' = DefaultCorner
            /\ repeatability' = DefaultRepeatability
            /\ drift' = DefaultDrift
       ELSE UNCHANGED <<corner, repeatability, drift>>
    /\ tables' = <<>>
    /\ Goto("tr_corner")
    /\ UNCHANGED <<force_dock, discard_first_sample, margin, printer, locals, burst,
                   dfs, df, sent, store, interrupted_at>>

\* line 47, after the try statement
main_unlock ==
    /\ Running("unlock")
    /\ Post(<<DOCK_PROBE_UNLOCK>>, <<>>)
    /\ status' = "returned"
    /\ pc' = "halt"
    /\ UNCHANGED <<args, printer, stack, raised_at, locals, burst, frames,
                   interrupted_at>>

----------------------------------------------------------------------------
(* test_routine (lines 50-73). *)

test_routine ==
    /\ status = "running"
    /\ pc \in {"tr_corner", "tr_repeat", "tr_drift"}
    /\ Goto(CASE pc = "tr_corner" ->
                    IF corner # 0 THEN "tc_level_bed" ELSE "tr_repeat"
              [] pc = "tr_repeat" ->
                    IF repeatability # 0 THEN "rp_lock" ELSE "tr_drift"
              [] pc = "tr_drift" ->
                    IF drift # 0 THEN "td_probe" ELSE "tr_concat")
    /\ UNCHANGED <<args, printer, locals, burst, frames, sent, store,
                   interrupted_at>>

\* lines 62-73: the merged table; the summary is computed from it
test_routine_concat ==
    /\ Running("tr_concat")
    /\ df' = sort_index(ignore_index(concat(tables)))
    /\ Goto("unlock")
    /\ UNCHANGED <<args, printer, locals, burst, dfs, tables, sent, store, interrupted_at>>

\* df.groupby("test") of a frame without rows has no column "test"
Grouped(t, next) == IF t = <<>> THEN Raise("KeyError") ELSE Goto(next)

----------------------------------------------------------------------------
(* test_corners (lines 135-170). *)

test_corners_lock ==
    /\ Running("tc_lock")
    /\ Post(lock_gcode, <<>>)
    /\ dfs' = <<>>
    /\ Goto("tc_corners")
    /\ UNCHANGED <<args, printer, locals, burst, tables, df,
                   interrupted_at>>

\* line 143: get_bed_corners() is read once, before the first corner
test_corners_enumerate ==
    /\ Running("tc_corners")
    /\ corners' = BedCorners
    /\ i' = 0
    /\ Goto("tc_loop")
    /\ UNCHANGED <<args, printer, loc, call, burst, frames, sent, store, interrupted_at>>

test_corners_loop ==
    /\ Running("tc_loop")
    /\ Post(corner_m117, <<>>)
    /\ IF i < 4
       THEN /\ call' = [probe_count |-> corner, loc |-> corners[i + 1],
                        testname |-> Label("N:corner", i + 1, corner)]
            /\ Call("tp_move", "tc_append")
       ELSE /\ Goto("tc_unlock")
            /\ UNCHANGED call
    /\ UNCHANGED <<args, printer, i, loc, corners, burst, frames,
                   interrupted_at>>

test_corners_append ==
    /\ Running("tc_append")
    /\ dfs' = Append(dfs, DataFrame(data, Label("N: (x, y)", i + 1, 0)))
    /\ i' = i + 1
    /\ Goto("tc_loop")
    /\ UNCHANGED <<args, printer, loc, call, corners, burst, tables, df, sent, store, interrupted_at>>

test_corners_unlock ==
    /\ Running("tc_unlock")
    /\ Post(unlock_gcode, <<>>)
    /\ Goto("tc_summary")
    /\ UNCHANGED <<args, printer, locals, burst, frames,
                   interrupted_at>>

test_corners_summary ==
    /\ Running("tc_summary")
    /\ Grouped(concat(dfs), "tr_repeat")
    /\ tables' = IF concat(dfs) = <<>> THEN tables
                 ELSE Append(tables, concat(dfs))
    /\ UNCHANGED <<args, printer, locals, burst, dfs, df, sent, store,
                   interrupted_at>>

----------------------------------------------------------------------------
(* test_repeatability (lines 100-132). *)

test_repeatability_lock ==
    /\ Running("rp_lock")
    /\ Post(lock_gcode, <<>>)
    /\ dfs' = <<>>
    /\ i' = 0
    /\ Goto("rp_loop")
    /\ UNCHANGED <<args, printer, loc, call, corners, burst, tables, df,
                   interrupted_at>>

\* the loop without the move to a random point
test_repeatability_loop_unperturbed ==
    /\ Running("rp_loop")
    /\ Goto(IF i < repeatability THEN "rp_center" ELSE "rp_unlock")
    /\ UNCHANGED <<args, printer, locals, burst, frames, sent, store,
                   interrupted_at>>

\* line 108: move_to_loc(*random_loc())
test_repeatability_loop ==
    /\ Running("rp_loop")
    /\ IF i < repeatability
       THEN /\ \E rx \in RandomDraws, ry \in RandomDraws :
                  loc' = random_loc(rx, ry, axis_minimum, axis_maximum, margin)
            /\ Call("mv_g90", "rp_center")
       ELSE /\ Goto("rp_unlock")
            /\ UNCHANGED loc
    /\ UNCHANGED <<args, printer, i, call, corners, burst, frames, sent, store,
                   interrupted_at>>

\* the same with every draw falling on 1/2
test_repeatability_loop_half ==
    /\ Running("rp_loop")
    /\ IF i < repeatability
       THEN /\ loc' = random_loc(<<1, 2>>, <<1, 2>>, axis_minimum, axis_maximum,
                                 margin)
            /\ Call("mv_g90", "rp_center")
       ELSE /\ Goto("rp_unlock")
            /\ UNCHANGED loc
    /\ UNCHANGED <<args, printer, i, call, corners, burst, frames, sent, store,
                   interrupted_at>>

\* line 109: move_to_loc(*get_bed_center())
test_repeatability_center ==
    /\ Running("rp_center")
    /\ loc' = BedCenter
    /\ Call("mv_g90", "rp_m117")
    /\ UNCHANGED <<args, printer, i, call, corners, burst, frames, sent, store,
                   interrupted_at>>

\* lines 110-112
test_repeatability_probe ==
    /\ Running("rp_m117")
    /\ Post(repeat_m117, <<>>)
    /\ call' = [probe_count |-> RepeatProbeCount, loc |-> <<>>,
                testname |-> Label("NN: center", i + 1, RepeatProbeCount)]
    /\ Call("tp_move", "rp_append")
    /\ UNCHANGED <<args, printer, i, loc, corners, burst, frames,
                   interrupted_at>>

test_repeatability_append ==
    /\ Running("rp_append")
    /\ dfs' = Append(dfs, DataFrame(data, Label("Test #", i + 1, 0)))
    /\ i' = i + 1
    /\ Goto("rp_loop")
    /\ UNCHANGED <<args, printer, loc, call, corners, burst, tables, df, sent, store, interrupted_at>>

test_repeatability_unlock ==
    /\ Running("rp_unlock")
    /\ Post(unlock_gcode, <<>>)
    /\ Goto("rp_summary")
    /\ UNCHANGED <<args, printer, locals, burst, frames,
                   interrupted_at>>

\* line 119: pd.concat(dfs, axis=0).sort_index()
test_repeatability_summary ==
    /\ Running("rp_summary")
    /\ Grouped(concat(dfs), "tr_drift")
    /\ \E p \in TieOrders(Len(dfs)) :
          tables' = IF concat(dfs) = <<>> THEN tables
                    ELSE Append(tables, sort_index(concat(Permuted(dfs, p))))
    /\ UNCHANGED <<args, printer, locals, burst, dfs, df, sent, store,
                   interrupted_at>>

----------------------------------------------------------------------------
(* test_drift (lines 76-87). *)

test_drift ==
    /\ Running("td_probe")
    /\ call' = [probe_count |-> drift, loc |-> <<>>,
                testname |-> Label("center", 0, drift)]
    /\ Call("tp_move", "td_summary")
    /\ UNCHANGED <<args, printer, i, loc, corners, burst, frames, sent, store,
                   interrupted_at>>

test_drift_summary ==
    /\ Running("td_summary")
    /\ Grouped(DataFrame(data, NoLabel), "tr_concat")
    /\ tables' = IF data = <<>> THEN tables
                 ELSE Append(tables, DataFrame(data, NoLabel))
    /\ UNCHANGED <<args, printer, locals, burst, dfs, df, sent, store,
                   interrupted_at>>

----------------------------------------------------------------------------
(* test_probe (lines 330-337) and move_to_loc (lines 284-290). *)

test_probe ==
    /\ Running("tp_move")
    /\ loc' = IF call.loc # <<>> THEN call.loc ELSE BedCenter
    /\ Call("mv_g90", "cd_baseline")
    /\ UNCHANGED <<args, printer, i, call, corners, burst, frames, sent, store,
                   interrupted_at>>

move_to_loc_g90 ==
    /\ Running("mv_g90")
    /\ Post(<<G90>>, <<>>)
    /\ Goto("mv_g0")
    /\ UNCHANGED <<args, printer, locals, burst, frames,
                   interrupted_at>>

move_to_loc_g0 ==
    /\ Running("mv_g0")
    /\ Post(<<G0(loc)>>, <<>>)
    /\ Return
    /\ UNCHANGED <<args, printer, locals, burst, frames,
                   interrupted_at>>

----------------------------------------------------------------------------
(* collect_data (lines 299-327). *)

\* line 301: the time of the newest entry of the store
collect_data_baseline ==
    /\ Running("cd_baseline")
    /\ IF get_gcode_response(1) = <<>>
       THEN /\ Raise("IndexError")
            /\ UNCHANGED start_time
       ELSE /\ start_time' = get_gcode_response(1)[1].time
            /\ Goto("cd_send")
    /\ UNCHANGED <<args, printer, locals, gcode_resp, data, acquired, frames,
                   sent, store, interrupted_at>>

\* line 302; the POST returns when Klipper has run the command.  Klipper
\* probes where the toolhead is, or reports an error.
collect_data_send ==
    /\ Running("cd_send")
    /\ \E m \in Worked(call.probe_count) :
          Post(<<PROBE_ACCURACY(call.probe_count)>>,
               Answer(LastTime(store) + 1, call.probe_count, Toolhead(sent), m))
    /\ Goto("cd_read")
    /\ UNCHANGED <<args, printer, locals, burst, frames, interrupted_at>>

\* collect_data giving up when Klipper reported an error
collect_data_strict ==
    /\ Running("cd_read")
    /\ LET raw  == get_gcode_response(StoreCount)
           resp == NewerThan(raw, start_time)
           msgs == StartsWith(resp, ProbeAt)
           d    == Samples(msgs, call.testname)
       IN  /\ gcode_resp' = resp
           /\ IF Len(d) = 0 \/ StartsWith(resp, Fault) # <<>>
              THEN /\ Raise("SystemExit")
                   /\ UNCHANGED <<data, acquired>>
              ELSE /\ data' = Discarded(d, discard_first_sample)
                   /\ acquired' = Append(acquired, data')
                   /\ Return
    /\ UNCHANGED <<args, printer, locals, start_time, frames, sent, store, interrupted_at>>

\* lines 303-327
collect_data ==
    /\ Running("cd_read")
    /\ LET raw  == get_gcode_response(StoreCount)
           resp == NewerThan(raw, start_time)
           msgs == StartsWith(resp, ProbeAt)
           d    == Samples(msgs, call.testname)
       IN  /\ gcode_resp' = resp
           /\ IF Len(d) = 0
              THEN /\ Raise("SystemExit")
                   /\ UNCHANGED <<data, acquired>>
              ELSE /\ data' = Discarded(d, discard_first_sample)
                   /\ acquired' = Append(acquired, data')
                   /\ Return
    /\ UNCHANGED <<args, printer, locals, start_time, frames, sent, store, interrupted_at>>

----------------------------------------------------------------------------
(* Exceptions from outside. *)

\* the interruption escaping main instead of being caught
KeyboardInterrupt_uncaught ==
    /\ status = "running"
    /\ pc \notin {"unlock", "halt"}
    /\ Raise("KeyboardInterrupt")
    /\ interrupted_at' = Len(sent)
    /\ UNCHANGED <<args, printer, locals, burst, frames, sent, store>>

\* Ctrl-C anywhere inside main's try statement: `except KeyboardInterrupt:
\* pass`, and main goes on at line 47
KeyboardInterrupt ==
    /\ status = "running"
    /\ pc \notin {"unlock", "halt"}
    /\ pc' = "unlock"
    /\ stack' = <<>>
    /\ interrupted_at' = Len(sent)
    /\ UNCHANGED <<args, printer, status, raised_at, locals, burst, frames,
                   sent, store>>

\* requests' get or post raises: the query of the step at pc fails, or its
\* POST does (the request was issued, Klipper's state is not read again).
\* No handler catches it, at line 45 or elsewhere.
TransportError ==
    /\ status = "running"
    /\ \/ Queries /\ UNCHANGED sent
       \/ Request # <<>> /\ sent' = sent \o Request
    /\ Raise("TransportError")
    /\ UNCHANGED <<args, printer, locals, burst, frames, store,
                   interrupted_at>>

----------------------------------------------------------------------------
(* The script run from the command line. *)

\* what an earlier session left in the store
OldStore == <<Entry(1, ProbeAt, 150, 150, 7)>>

Init ==
    /\ corner \in {0, CornerN}
    /\ repeatability \in {0, MaxTrials}
    /\ drift \in {0, 1, DriftN}
    /\ corner + repeatability + drift > 0
    /\ force_dock \in BOOLEAN
    /\ discard_first_sample = TRUE
    /\ margin = Margin
    /\ Printer300
    /\ homed_axes = ""
    /\ leveling \in Leveling
    /\ applied \in BOOLEAN
    /\ pc = "homing"
    /\ stack = <<>>
    /\ status = "running"
    /\ i = 0
    /\ loc = <<0, 0>>
    /\ call = NoCall
    /\ corners = <<>>
    /\ start_time = 0
    /\ gcode_resp = <<>>
    /\ data = <<>>
    /\ acquired = <<>>
    /\ dfs = <<>>
    /\ tables = <<>>
    /\ df = <<>>
    /\ sent = <<>>
    /\ store = OldStore
    /\ interrupted_at = -1
    /\ raised_at = -1

Next ==
    \/ homing
    \/ level_bed
    \/ move_to_safe_z
    \/ main_args
    \/ main_unlock
    \/ test_routine
    \/ test_routine_concat
    \/ test_corners_lock
    \/ test_corners_enumerate
    \/ test_corners_loop
    \/ test_corners_append
    \/ test_corners_unlock
    \/ test_corners_summary
    \/ test_repeatability_lock
    \/ test_repeatability_loop
    \/ test_repeatability_center
    \/ test_repeatability_probe
    \/ test_repeatability_append
    \/ test_repeatability_unlock
    \/ test_repeatability_summary
    \/ test_drift
    \/ test_drift_summary
    \/ test_probe
    \/ move_to_loc_g90
    \/ move_to_loc_g0
    \/ collect_data_baseline
    \/ collect_data_send
    \/ collect_data
    \/ KeyboardInterrupt
    \/ TransportError

Spec == Init /\ [][Next]_vars

----------------------------------------------------------------------------
(* collect_data on its own, against any answer of at most MaxResp entries: *)
(* measurement lines of either sign, error lines and other lines, in any   *)
(* order, and entries that share a timestamp with the one before.          *)

Lines ==
    {Entry(0, ProbeAt, 150, 150, z) : z \in {-1, 2}}
        \cup {Entry(0, ProbeAt, -10, 150, 1)}
        \cup {Entry(0, Fault, 0, 0, 0), Entry(0, Results, 0, 0, 0)}

RECURSIVE Sum(_, _)
Sum(f, n) == IF n = 0 THEN 0 ELSE f[n] + Sum(f, n - 1)

\* the lines ls, the k-th stamped t plus the first k ticks
Stamped(ls, ticks, t) ==
    [k \in 1..Len(ls) |-> [ls[k] EXCEPT !.time = t + Sum(ticks, k)]]

collect_data_send_any ==
    /\ Running("cd_send")
    /\ \E len \in 0..MaxResp, tick \in 0..1 :
          \E ls \in [1..len -> Lines], ticks \in [1..len -> 0..1] :
             LET g == PROBE_ACCURACY(call.probe_count)
                 t == LastTime(store) + tick
             IN  /\ sent' = Append(sent, g)
                 /\ store' = Append(store, Entry(t, g.gcode, g.a, g.b, 0))
                                \o Stamped(ls, ticks, t)
    /\ Goto("cd_read")
    /\ UNCHANGED <<args, printer, locals, burst, frames, interrupted_at>>

\* stores to start from: empty, an earlier burst, entries sharing a time
Stores ==
    { <<>>,
      <<Entry(1, ProbeAt, 150, 150, 7), Entry(2, "G0", 150, 150, 0)>>,
      <<Entry(1, ProbeAt, 150, 150, 7), Entry(1, ProbeAt, 150, 150, 8)>> }

InitCollect ==
    /\ corner = 0
    /\ repeatability = 0
    /\ drift = MaxResp
    /\ force_dock = FALSE
    /\ discard_first_sample \in BOOLEAN
    /\ margin = Margin
    /\ Printer300
    /\ homed_axes = "xyz"
    /\ leveling = "z_tilt"
    /\ applied = TRUE
    /\ pc = "cd_baseline"
    /\ stack = <<"halt">>
    /\ status = "running"
    /\ i = 0
    /\ loc = BedCenter
    /\ call = [probe_count |-> drift, loc |-> <<>>,
               testname |-> Label("center", 0, drift)]
    /\ corners = <<>>
    /\ start_time = 0
    /\ gcode_resp = <<>>
    /\ data = <<>>
    /\ acquired = <<>>
    /\ dfs = <<>>
    /\ tables = <<>>
    /\ df = <<>>
    /\ sent = <<>>
    /\ store \in Stores
    /\ interrupted_at = -1
    /\ raised_at = -1

NextCollect ==
    \/ collect_data_baseline
    \/ collect_data_send_any
    \/ collect_data

SpecCollect == InitCollect /\ [][NextCollect]_vars

----------------------------------------------------------------------------
(* The script run to its end on a homed and leveled printer, with a probe  *)
(* that may also fail in the middle of a burst.  The draws of random_loc   *)
(* all fall on 1/2.                                                        *)

collect_data_send_partly ==
    /\ Running("cd_send")
    /\ \E m \in WorkedPartly(call.probe_count) :
          Post(<<PROBE_ACCURACY(call.probe_count)>>,
               Answer(LastTime(store) + 1, call.probe_count, Toolhead(sent), m))
    /\ Goto("cd_read")
    /\ UNCHANGED <<args, printer, locals, burst, frames, interrupted_at>>

InitFault ==
    /\ corner \in {0, CornerN}
    /\ repeatability \in {0, MaxTrials}
    /\ drift \in {0, DriftN}
    /\ corner + repeatability + drift > 0
    /\ force_dock = FALSE
    /\ discard_first_sample = TRUE
    /\ margin = Margin
    /\ Printer300
    /\ homed_axes = "xyz"
    /\ leveling = "z_tilt"
    /\ applied = TRUE
    /\ pc = "homing"
    /\ stack = <<>>
    /\ status = "running"
    /\ i = 0
    /\ loc = <<0, 0>>
    /\ call = NoCall
    /\ corners = <<>>
    /\ start_time = 0
    /\ gcode_resp = <<>>
    /\ data = <<>>
    /\ acquired = <<>>
    /\ dfs = <<>>
    /\ tables = <<>>
    /\ df = <<>>
    /\ sent = <<>>
    /\ store = OldStore
    /\ interrupted_at = -1
    /\ raised_at = -1

NextFault ==
    \/ homing
    \/ level_bed
    \/ move_to_safe_z
    \/ main_args
    \/ main_unlock
    \/ test_routine
    \/ test_routine_concat
    \/ test_corners_lock
    \/ test_corners_enumerate
    \/ test_corners_loop
    \/ test_corners_append
    \/ test_corners_unlock
    \/ test_corners_summary
    \/ test_repeatability_lock
    \/ test_repeatability_loop_half
    \/ test_repeatability_center
    \/ test_repeatability_probe
    \/ test_repeatability_append
    \/ test_repeatability_unlock
    \/ test_repeatability_summary
    \/ test_drift
    \/ test_drift_summary
    \/ test_probe
    \/ move_to_loc_g90
    \/ move_to_loc_g0
    \/ collect_data_baseline
    \/ collect_data_send_partly
    \/ collect_data

SpecFault == InitFault /\ [][NextFault]_vars

----------------------------------------------------------------------------
(* The script run without arguments, to its end or to the first burst that *)
(* fails.  The run is long: the draws of random_loc all fall on 1/2.       *)

InitDefault ==
    /\ corner = 0
    /\ repeatability = 0
    /\ drift = 0
    /\ force_dock \in BOOLEAN
    /\ discard_first_sample = TRUE
    /\ margin = Margin
    /\ Printer300
    /\ homed_axes \in {"", "xyz"}
    /\ leveling \in Leveling \ {"none"}
    /\ applied \in BOOLEAN
    /\ pc = "homing"
    /\ stack = <<>>
    /\ status = "running"
    /\ i = 0
    /\ loc = <<0, 0>>
    /\ call = NoCall
    /\ corners = <<>>
    /\ start_time = 0
    /\ gcode_resp = <<>>
    /\ data = <<>>
    /\ acquired = <<>>
    /\ dfs = <<>>
    /\ tables = <<>>
    /\ df = <<>>
    /\ sent = <<>>
    /\ store = OldStore
    /\ interrupted_at = -1
    /\ raised_at = -1

NextDefault ==
    \/ homing
    \/ level_bed
    \/ move_to_safe_z
    \/ main_args
    \/ main_unlock
    \/ test_routine
    \/ test_routine_concat
    \/ test_corners_lock
    \/ test_corners_enumerate
    \/ test_corners_loop
    \/ test_corners_append
    \/ test_corners_unlock
    \/ test_corners_summary
    \/ test_repeatability_lock
    \/ test_repeatability_loop_half
    \/ test_repeatability_center
    \/ test_repeatability_probe
    \/ test_repeatability_append
    \/ test_repeatability_unlock
    \/ test_repeatability_summary
    \/ test_drift
    \/ test_drift_summary
    \/ test_probe
    \/ move_to_loc_g90
    \/ move_to_loc_g0
    \/ collect_data_baseline
    \/ collect_data_send
    \/ collect_data

SpecDefault == InitDefault /\ [][NextDefault]_vars

----------------------------------------------------------------------------
(* The location functions on their own, on printers of other geometries.   *)

\* what the toolhead and the configuration report, per axis
AxisMinima == {0, 40}
AxisMaxima == {200, 300}
MeshMinima == {-20, 40}
MeshMaxima == {160, 260}
Offsets    == {-20, 0, 20}
Margins    == {0, 50}

\* np.random.random() over more of [0, 1)
LocDraws == {<<0, 1>>, <<1, 2>>, <<9, 10>>}

random_loc_call ==
    /\ Running("call")
    /\ \E rx \in LocDraws, ry \in LocDraws :
          loc' = random_loc(rx, ry, axis_minimum, axis_maximum, margin)
    /\ Goto("rl_return")
    /\ UNCHANGED <<args, printer, i, call, corners, burst, frames, sent, store,
                   interrupted_at>>

get_bed_corners_call ==
    /\ Running("call")
    /\ corners' = get_bed_corners(mesh_min, mesh_max, probe_offset)
    /\ Goto("bc_return")
    /\ UNCHANGED <<args, printer, i, loc, call, burst, frames, sent, store,
                   interrupted_at>>

InitLoc ==
    /\ corner = 0
    /\ repeatability = 0
    /\ drift = 0
    /\ force_dock = FALSE
    /\ discard_first_sample = TRUE
    /\ margin \in Margins
    /\ axis_minimum \in AxisMinima \X AxisMinima
    /\ axis_maximum \in AxisMaxima \X AxisMaxima
    /\ mesh_min \in MeshMinima \X MeshMinima
    /\ mesh_max \in MeshMaxima \X MeshMaxima
    /\ probe_offset \in Offsets \X Offsets
    /\ homed_axes = "xyz"
    /\ leveling = "z_tilt"
    /\ applied = TRUE
    /\ pc = "call"
    /\ stack = <<>>
    /\ status = "running"
    /\ i = 0
    /\ loc = <<0, 0>>
    /\ call = NoCall
    /\ corners = <<>>
    /\ start_time = 0
    /\ gcode_resp = <<>>
    /\ data = <<>>
    /\ acquired = <<>>
    /\ dfs = <<>>
    /\ tables = <<>>
    /\ df = <<>>
    /\ sent = <<>>
    /\ store = <<>>
    /\ interrupted_at = -1
    /\ raised_at = -1

NextLoc ==
    \/ random_loc_call
    \/ get_bed_corners_call

SpecLoc == InitLoc /\ [][NextLoc]_vars

----------------------------------------------------------------------------
(* The probe lock in the commands sent. *)

\* an ATTACH_PROBE_LOCK among the first n commands with no DOCK_PROBE_UNLOCK
\* after it among them
LockHeldAt(n) ==
    \E a \in 1..n :
        /\ sent[a] = ATTACH_PROBE_LOCK
        /\ \A m \in (a + 1)..n : sent[m] # DOCK_PROBE_UNLOCK

UnlockSentAfter(n) == \E d \in (n + 1)..Len(sent) : sent[d] = DOCK_PROBE_UNLOCK

\* C1: when the run was interrupted (KeyboardInterrupt inside main's try
\* statement) after an ATTACH_PROBE_LOCK had been sent, the ended program has
\* sent a DOCK_PROBE_UNLOCK after the point of the interruption.
C1_InterruptReleasesLock ==
    (/\ status # "running"
     /\ interrupted_at >= 0
     /\ \E a \in 1..interrupted_at : sent[a] = ATTACH_PROBE_LOCK)
        => UnlockSentAfter(interrupted_at)

\* a run interrupted while the lock was held, and ended
C1_Witness ==
    /\ status = "returned"
    /\ interrupted_at >= 0
    /\ LockHeldAt(interrupted_at)

\* C2: when collect_data's no-measurement exit ends the run while the probe
\* lock is held, a DOCK_PROBE_UNLOCK has been sent after the failed burst.
C2_NoSamplesExitReleasesLock ==
    (status = "SystemExit" /\ LockHeldAt(raised_at))
        => UnlockSentAfter(raised_at)

\* C3: when a transport call fails while the probe lock is held, a
\* DOCK_PROBE_UNLOCK is sent after the failure, before the program ends.
C3_TransportFailureReleasesLock ==
    (status = "TransportError" /\ LockHeldAt(raised_at))
        => UnlockSentAfter(raised_at)

----------------------------------------------------------------------------
(* collect_data's result. *)

\* collect_data has returned its list to test_probe's caller
Returned ==
    /\ status = "running"
    /\ pc \in {"tc_append", "rp_append", "td_summary", "halt"}

\* the entries of the read that are newer than the baseline, by position
Newer(raw) == {k \in 1..Len(raw) : raw[k].time > start_time}

\* the j-th smallest member of the set of positions S
Nth(S, j) == CHOOSE k \in S : Cardinality({m \in S : m <= k}) = j

\* the '// probe at' lines among them, in the order of the log
Matching ==
    LET raw == LastN(store, StoreCount)
        at  == {k \in Newer(raw) : raw[k].prefix = ProbeAt}
    IN  [j \in 1..Cardinality(at) |-> raw[Nth(at, j)]]

\* C4: a call with discard_first_sample=True that returns, returns at least
\* one sample (0 or 1 matching lines abort the run instead).
C4_NeverReturnsEmptyBurst ==
    (Returned /\ discard_first_sample) => data # <<>>

C6_CorrelatesNewerEntries ==
    /\ (status = "running" /\ pc = "cd_send") => start_time = Last(store).time
    /\ (pc \in {"tc_append", "rp_append", "td_summary", "halt"}
            /\ status \in {"running", "SystemExit"}) =>
          LET raw == LastN(store, StoreCount)
          IN  /\ Len(gcode_resp) = Cardinality(Newer(raw))
              /\ \A j \in 1..Len(gcode_resp) :
                    gcode_resp[j] = raw[Nth(Newer(raw), j)]
              /\ Len(data) <= Len(Matching)

\* a burst returned from a store that holds an older measurement line, and
\* a measurement line that follows the command with the baseline's time
C6_Witness ==
    /\ Returned
    /\ discard_first_sample
    /\ data # <<>>
    /\ store[1].prefix = ProbeAt
    /\ store[1].time < start_time
    /\ \E k \in 2..Len(store) :
          /\ store[k].prefix = ProbeAt
          /\ store[k].time = start_time
          /\ store[k - 1].prefix = PROBE_ACCURACY(0).gcode

\* C7: a burst returned with the discard enabled has one sample per matching
\* line but the first, and the z of the k-th sample is the z written in
\* matching line k + 1.
C7_DiscardKeepsLineValues ==
    (Returned /\ discard_first_sample) =>
        /\ Len(data) = Len(Matching) - 1
        /\ \A k \in 1..Len(data) : data[k].z = Matching[k + 1].z

----------------------------------------------------------------------------
(* The commands of the corner and of the repeatability procedure. *)

IsProbe(c)    == c.gcode = PROBE_ACCURACY(0).gcode
IsLeveling(c) == c.gcode \in {"z_tilt_adjust", "quad_gantry_level"}
IsLocking(c)  == c \in {ATTACH_PROBE_LOCK, DOCK_PROBE_UNLOCK}

\* positions in the commands sent
Probes    == {p \in 1..Len(sent) : IsProbe(sent[p])}
Levelings == {p \in 1..Len(sent) : IsLeveling(sent[p])}
Lockings  == {p \in 1..Len(sent) : IsLocking(sent[p])}
Moves     == {p \in 1..Len(sent) : sent[p].gcode = "G0"}
SafeZs    == {p \in 1..Len(sent) : sent[p] = G1_Z}

\* the M117 of corner k, of trial k; the PROBE_ACCURACY that follows position m
CornerAt(k) ==
    {p \in 1..Len(sent) : sent[p] = Gcode("M117 corner test", k, 4)}
TrialAt(k) ==
    {p \in 1..Len(sent) :
        sent[p].gcode = "M117 repeatability test" /\ sent[p].a = k}
ProbeAfter(m) == {p \in Probes : p > m}

\* the target of the last G0 before position p
MovedTo(p) ==
    LET moves == {m \in Moves : m < p}
    IN  <<sent[Max(moves)].a, sent[Max(moves)].b>>

\* inside test_corners, between taking the lock and releasing it
InCorners ==
    /\ status = "running"
    /\ \/ pc \in {"tc_corners", "tc_loop", "tc_append", "tc_unlock"}
       \/ \E k \in 1..Len(stack) : stack[k] = "tc_append"

\* test_corners has sent its last command
CornersDone == status = "running" /\ pc = "tc_summary"

\* one ATTACH_PROBE_LOCK before the first corner's PROBE_ACCURACY, one
\* DOCK_PROBE_UNLOCK after the fourth's, neither command in between
Bracketed ==
    /\ \A k \in 1..4 : CornerAt(k) # {} /\ ProbeAfter(Max(CornerAt(k))) # {}
    /\ \E a \in 1..Len(sent), d \in 1..Len(sent) :
          /\ sent[a] = ATTACH_PROBE_LOCK
          /\ sent[d] = DOCK_PROBE_UNLOCK
          /\ a < Min(ProbeAfter(Max(CornerAt(1))))
          /\ d > Min(ProbeAfter(Max(CornerAt(4))))
          /\ \A m \in (a + 1)..(d - 1) : ~IsLocking(sent[m])

\* C8 as claimed: for either value of force_dock the finished corner
\* procedure has bracketed its four bursts by a lock and an unlock.
C8_BracketedWithOrWithoutForceDock == CornersDone => Bracketed

\* C8: without force_dock the corner procedure holds the lock from before the
\* first corner's PROBE_ACCURACY until after the fourth's burst, with no lock
\* or unlock command in between; with force_dock it sends neither command.
C8_BracketedUnlessForceDock ==
    /\ (InCorners /\ ~force_dock /\ pc # "tc_unlock") => LockHeldAt(Len(sent))
    /\ (CornersDone /\ ~force_dock) => Bracketed
    /\ ((InCorners \/ CornersDone) /\ force_dock) => Lockings = {}

\* the corner procedure finished, run with the lock
C8_Witness == CornersDone /\ ~force_dock /\ Len(dfs) = 4

\* C9: once the corner procedure probes, a leveling command has been sent
\* after main's own level_bed and move_to_safe_z (the forced one); the bursts
\* are taken at the corners in get_bed_corners' order, never more than four,
\* and exactly four when the procedure finishes.
C9_LevelsThenFourCorners ==
    /\ (InCorners \/ CornersDone) =>
          /\ \E l \in Levelings : \E g \in SafeZs :
                g < l /\ \A p \in Probes : l < p
          /\ Cardinality(Probes) <= 4
          /\ \A k \in 1..4 : \A m \in CornerAt(k) : \A p \in ProbeAfter(m) :
                p = Min(ProbeAfter(m)) =>
                   /\ MovedTo(p) = get_bed_corners(mesh_min, mesh_max, probe_offset)[k]
                   /\ Cardinality({q \in Probes : q <= p}) = k
    /\ CornersDone =>
          /\ Cardinality(Probes) = 4
          /\ Len(dfs) = 4
          /\ \A k \in 1..4 : \A r \in 1..Len(dfs[k]) :
                dfs[k][r].test = Label("N:corner", k, corner)

\* the corner procedure finished on a bed that was leveled when it started:
\* the only leveling command sent is the forced one
C9_Witness ==
    /\ CornersDone
    /\ Cardinality(Levelings) = 1
    /\ Cardinality(Probes) = 4

\* C10: every trial's PROBE_ACCURACY comes after a move to a random point and
\* a later move to the bed center, both after the PROBE_ACCURACY of the trial
\* before; the trials are numbered in order, and the finished procedure has
\* acquired test_count bursts.
C10_PerturbThenCenterThenProbe ==
    /\ \A k \in 1..repeatability : \A m \in TrialAt(k) :
          LET before == {q \in Probes : q < m}
              q0     == IF before = {} THEN 0 ELSE Max(before)
          IN  /\ Cardinality(TrialAt(k)) = 1
              /\ k > 1 => \E n \in TrialAt(k - 1) :
                             n < m /\ Cardinality({q \in ProbeAfter(n) : q < m}) = 1
              /\ \E a \in (q0 + 1)..m : \E b \in (a + 1)..m :
                    /\ sent[a].gcode = "G0"
                    /\ <<sent[a].a, sent[a].b>> \in RandomLocs
                    /\ sent[b] = G0(get_bed_center(axis_minimum, axis_maximum))
    /\ (status = "running" /\ pc \in {"rp_unlock", "rp_summary"}) =>
          /\ Len(dfs) = repeatability
          /\ \A k \in 1..repeatability :
                TrialAt(k) # {} /\ ProbeAfter(Max(TrialAt(k))) # {}

\* the repeatability procedure finished after two trials or more
C10_Witness ==
    /\ status = "running"
    /\ pc = "rp_summary"
    /\ repeatability >= 2
    /\ Len(dfs) = repeatability

\* the error lines collect_data prints (lines 306, 309-312)
err_msgs == StartsWith(gcode_resp, Fault)

\* what lines 304-327 make of the log once its error lines are taken out
WithoutErrors ==
    LET raw  == SelectSeq(LastN(store, StoreCount), LAMBDA e : e.prefix # Fault)
        msgs == StartsWith(NewerThan(raw, start_time), ProbeAt)
    IN  Discarded(Samples(msgs, call.testname), discard_first_sample)

\* collect_data is over: it returned or ended the program
Read == pc \in {"tc_append", "rp_append", "td_summary", "halt"}

\* C14: a burst of two measurement lines or more is returned whatever error
\* lines lie among the correlated entries, and the list returned is the one
\* the same log gives without its error lines (one sample less than
\* measurement lines when the first is discarded).
C14_ErrorLinesDoNotAlterParsing ==
    (Read /\ Len(Matching) >= 2) =>
        /\ status = "running"
        /\ data = WithoutErrors
        /\ discard_first_sample => Len(data) = Len(Matching) - 1

\* a burst returned from a log with an error line before the last of its
\* measurement lines
C14_Witness ==
    /\ Returned
    /\ discard_first_sample
    /\ Len(data) >= 1
    /\ err_msgs # <<>>
    /\ \E a, b \in 1..Len(gcode_resp) :
          a < b /\ gcode_resp[a].prefix = Fault /\ gcode_resp[b].prefix = ProbeAt

\* C19: every returned sample has the x, y and z written in its measurement
\* line (the matching line its index counts), signs included.
C19_SamplesCarryLineValues ==
    Returned =>
        \A k \in 1..Len(data) :
            /\ data[k].index + 1 \in 1..Len(Matching)
            /\ data[k].x = Matching[data[k].index + 1].x
            /\ data[k].y = Matching[data[k].index + 1].y
            /\ data[k].z = Matching[data[k].index + 1].z

----------------------------------------------------------------------------
(* The merged tables and their summaries. *)

\* a table's rows without their labels in the index
Unlabelled(t) == [k \in 1..Len(t) |-> [t[k] EXCEPT !.row = 0]]

\* the rows of every burst (test label) lie next to each other
Contiguous(t) ==
    \A a, c \in 1..Len(t) : \A b \in a..c :
        t[a].test = t[c].test => t[b].test = t[a].test

\* test_routine has merged the tables of the run
Merged == status = "running" /\ pc = "unlock" /\ interrupted_at = -1

\* df.groupby("test")["z"].agg([...]) (lines 65-67, 79-81, 120-122, 158-160):
\* one record per label, from the rows of the label in the order of the
\* table.  mean and std are left out.
agg(t) ==
    [l \in {t[k].test : k \in 1..Len(t)} |->
        LET g  == SelectSeq(t, LAMBDA w : w.test = l)
            zs == {g[k].z : k \in 1..Len(g)}
        IN  [min |-> Min(zs), max |-> Max(zs), first |-> g[1].z,
             last |-> Last(g).z, count |-> Len(g)]]

\* the derived columns taken the other way round
derived_reversed(r) == [range |-> r.min - r.max, drift |-> r.first - r.last]

\* summary["range"] = max - min; summary["drift"] = last - first
derived(r) == [range |-> r.max - r.min, drift |-> r.last - r.first]

summary(t) ==
    [l \in DOMAIN agg(t) |->
        [min |-> agg(t)[l].min, max |-> agg(t)[l].max,
         first |-> agg(t)[l].first, last |-> agg(t)[l].last,
         count |-> agg(t)[l].count,
         range |-> derived(agg(t)[l]).range,
         drift |-> derived(agg(t)[l]).drift]]

\* C11: the table a procedure returns holds its bursts one after the other in
\* the order they were acquired, each in acquisition order, and test_routine's
\* table holds the procedures' tables in the order they were appended.
C11_MergePreservesOrder ==
    /\ (Running("tr_repeat") /\ corner # 0) => Last(tables) = Flatten(dfs)
    /\ (Running("tr_drift") /\ repeatability # 0) => Last(tables) = Flatten(dfs)
    /\ Merged => /\ Unlabelled(df) = Unlabelled(Flatten(tables))
                 /\ Contiguous(df)

\* C12: the summary of test_routine's table has one record per burst the run
\* acquired, and the record of a burst's label has the burst's length as
\* count, the z of its first retained sample as first and of its last as last.
C12_OneRecordPerBurst ==
    Merged =>
        /\ Cardinality(DOMAIN summary(df)) = Len(acquired)
        /\ \A k \in 1..Len(acquired) :
              LET b == acquired[k]
              IN  b # <<>> =>
                    /\ b[1].test \in DOMAIN summary(df)
                    /\ summary(df)[b[1].test].count = Len(b)
                    /\ summary(df)[b[1].test].first = b[1].z
                    /\ summary(df)[b[1].test].last = Last(b).z

\* the tables summarised so far: the procedures' and test_routine's
Summarised == {tables[k] : k \in 1..Len(tables)} \cup {df}

\* C13: in every record of every summary, range is max - min and is not
\* negative, drift is last - first, first and last lie between min and max,
\* and count is the number of rows of the table that carry the label.
C13_RecordsAreConsistent ==
    \A t \in Summarised : \A l \in DOMAIN summary(t) :
        LET r == summary(t)[l]
        IN  /\ r.range = r.max - r.min
            /\ r.drift = r.last - r.first
            /\ r.range >= 0
            /\ r.min <= r.first /\ r.first <= r.max
            /\ r.min <= r.last /\ r.last <= r.max
            /\ r.count = Cardinality({k \in 1..Len(t) : t[k].test = l})

\* a run-wide summary of several procedures with a record of non-zero range
\* and drift, and a record of a burst cut short
C13_Witness ==
    /\ Merged
    /\ Len(tables) >= 2
    /\ \E l \in DOMAIN summary(df) :
          summary(df)[l].range > 0 /\ summary(df)[l].drift > 0
    /\ \E l, m \in DOMAIN summary(df) :
          /\ l.text = m.text
          /\ summary(df)[l].count < summary(df)[m].count

----------------------------------------------------------------------------
(* The location functions. *)

\* the interval [min + margin, max - margin] of axis a
Lowest(a)  == axis_minimum[a] + margin
Highest(a) == axis_maximum[a] - margin

\* C15: where those intervals are not empty, the point random_loc returns
\* lies within them on both axes.
C15_RandomLocWithinMargins ==
    (pc = "rl_return" /\ \A a \in 1..2 : Lowest(a) <= Highest(a)) =>
        \A a \in 1..2 : Lowest(a) <= loc[a] /\ loc[a] <= Highest(a)

\* the corners of the mesh bounds, shifted by the probe offset
MeshCorners ==
    {<<x - probe_offset[1], y - probe_offset[2]>> :
        x \in {mesh_min[1], mesh_max[1]}, y \in {mesh_min[2], mesh_max[2]}}

\* C16: get_bed_corners returns four points, which are the four corners of the
\* mesh bounds shifted by (-x_offset, -y_offset).
C16_CornersOfTheMesh ==
    pc = "bc_return" =>
        /\ Len(corners) = 4
        /\ {corners[k] : k \in 1..4} = MeshCorners

----------------------------------------------------------------------------
(* The counts of a run without arguments. *)

\* PROBE_ACCURACY has just been sent for the procedure that returns to `back`
Requested(back) ==
    /\ status = "running"
    /\ pc = "cd_read"
    /\ \E k \in 1..Len(stack) : stack[k] = back

\* C17: a run without arguments requests 30 samples at each of the four
\* corners, 5 samples at the bed center in each of 20 repeatability tests, and
\* 100 samples at the bed center in one drift test.
C17_DefaultRunCounts ==
    /\ Requested("tc_append") =>
          /\ Last(sent) = PROBE_ACCURACY(30)
          /\ Toolhead(sent) = BedCorners[i + 1]
    /\ Requested("rp_append") =>
          /\ Last(sent) = PROBE_ACCURACY(HeaderRepeatSamples)
          /\ Toolhead(sent) = BedCenter
          /\ repeatability = 20
    /\ Requested("td_summary") =>
          /\ Last(sent) = PROBE_ACCURACY(100)
          /\ Toolhead(sent) = BedCenter
    /\ Merged => Cardinality(Probes) = 4 + 20 + 1

----------------------------------------------------------------------------
(* A printer without a leveling section. *)

\* C18: on a printer with neither [z_tilt] nor [quad_gantry_level], level_bed
\* sends no leveling command and returns: the program does not end in
\* level_bed, and goes on to move_to_safe_z.
C18_MissingLevelingIsSkipped ==
    leveling = "none" =>
        /\ Levelings = {}
        /\ status # "UnboundLocalError"
        /\ (pc = "halt" /\ status # "TransportError" /\ interrupted_at = -1)
              => SafeZs # {}

----------------------------------------------------------------------------
(* The lock over the whole run. *)

Attaches == {p \in 1..Len(sent) : sent[p] = ATTACH_PROBE_LOCK}

\* C20: at every point of every run, interrupted or not, a DOCK_PROBE_UNLOCK
\* lies between any two ATTACH_PROBE_LOCK commands sent, and with force_dock
\* no ATTACH_PROBE_LOCK is sent at all.
C20_LockNeverTakenTwice ==
    /\ \A a, b \in Attaches :
          a < b => \E d \in (a + 1)..(b - 1) : sent[d] = DOCK_PROBE_UNLOCK
    /\ force_dock => Attaches = {}

\* a run that took the lock in the corner and in the repeatability procedure
\* and was interrupted in the second
C20_Witness ==
    /\ Cardinality(Attaches) = 2
    /\ interrupted_at > Max(Attaches)
    /\ status = "returned"
====
